---------------------------- MODULE Spec2Model ----------------------------
(***************************************************************************)
(* Model of scripts/transform_crimes_csv.py: the date split                *)
(* (transform_date), the column re-projection and row loop                 *)
(* (transform_csv) and the backup / transform / replace run (main).        *)
(*                                                                         *)
(* A text is a sequence of one-character strings, so that parsing and      *)
(* formatting are computed character by character.  A file is either       *)
(* NoFile or a record [hdr, rows]: the header line and the data lines of   *)
(* a CSV, each data line a sequence of field values aligned with hdr.      *)
(*                                                                         *)
(* Fault model: the I/O operations that the error taxonomy names can fail  *)
(* (open of the input, copy of the backup, open/write of the temp file,    *)
(* replace).  exists() and unlink() are taken to succeed.  The print       *)
(* calls, the progress line every 5000 rows among them, change no state    *)
(* and are left out.  Data lines have one field per header column.         *)
(***************************************************************************)
EXTENDS Integers, Sequences, FiniteSets, TLC

VARIABLES
    csv,            \* content of Chicago_Crimes_2025_Enriched.csv, or NoFile
    backup,         \* content of ....csv.backup, or NoFile
    temp,           \* content of ....csv.tmp, or NoFile
    pc,             \* position of the run inside main / transform_csv
    old_fieldnames, \* transform_csv: reader.fieldnames
    new_fieldnames, \* transform_csv: the output header
    rows,           \* transform_csv: the transformed rows accumulated so far
    row_count,      \* transform_csv: rows processed
    result,         \* how main ended: "none" while running
    run,            \* number of the current run (1..MaxRuns)
    hist,           \* what is remembered about the run, for the properties
    date_str,       \* transform_date: the argument (date specification)
    date_out        \* transform_date: the outcome (date specification)

vars == <<csv, backup, temp, pc, old_fieldnames, new_fieldnames, rows,
          row_count, result, run, hist, date_str, date_out>>

(***************************************************************************)
(* Bounds                                                                  *)
(***************************************************************************)
MaxRows == 2
MaxCols == 3
MaxRuns == 2

\* a path at which no file exists
NoFile == [exists |-> FALSE, hdr |-> <<>>, rows |-> <<>>]

(***************************************************************************)
(* Texts                                                                   *)
(***************************************************************************)
DigitVal ==
    ("0" :> 0) @@ ("1" :> 1) @@ ("2" :> 2) @@ ("3" :> 3) @@ ("4" :> 4) @@
    ("5" :> 5) @@ ("6" :> 6) @@ ("7" :> 7) @@ ("8" :> 8) @@ ("9" :> 9)

DigitChr == <<"0", "1", "2", "3", "4", "5", "6", "7", "8", "9">>

IsDigit(c) == c \in DOMAIN DigitVal

\* %02d
Pad2(n) == <<DigitChr[((n \div 10) % 10) + 1], DigitChr[(n % 10) + 1]>>

\* %04d
Pad4(n) == Pad2(n \div 100) \o Pad2(n % 100)

\* first position at or after i of s that holds no digit
RECURSIVE RunEnd(_, _)
RunEnd(s, i) == IF i <= Len(s) /\ IsDigit(s[i]) THEN RunEnd(s, i + 1) ELSE i

\* first position at or after i of s that holds no blank (the format's " "
\* is matched as \s+)
RECURSIVE SpaceEnd(_, _)
SpaceEnd(s, i) == IF i <= Len(s) /\ s[i] = " " THEN SpaceEnd(s, i + 1) ELSE i

\* int() of the digits s[i .. j-1]
RECURSIVE NumVal(_, _, _)
NumVal(s, i, j) ==
    IF j <= i THEN 0 ELSE NumVal(s, i, j - 1) * 10 + DigitVal[s[j - 1]]

NoField == [ok |-> FALSE, val |-> 0, next |-> 0]

\* A numeric directive at position i: a run of minLen..maxLen digits whose
\* value lies in lo..hi.  Every directive of the format is followed by a
\* literal that is no digit, so the directive has to take the whole run.
Field(s, i, minLen, maxLen, lo, hi) ==
    LET j == RunEnd(s, i)
        v == NumVal(s, i, j)
    IN  IF j - i >= minLen /\ j - i <= maxLen /\ v >= lo /\ v <= hi
        THEN [ok |-> TRUE, val |-> v, next |-> j]
        ELSE NoField

\* %d also takes a blank followed by one digit 1..9
DayField(s, i) ==
    IF i + 1 <= Len(s) /\ s[i] = " " /\ IsDigit(s[i + 1])
       /\ DigitVal[s[i + 1]] >= 1 /\ RunEnd(s, i + 1) = i + 2
    THEN [ok |-> TRUE, val |-> DigitVal[s[i + 1]], next |-> i + 2]
    ELSE Field(s, i, 1, 2, 1, 31)

\* a literal character of the format
Lit(s, i, c) ==
    IF i <= Len(s) /\ s[i] = c THEN [ok |-> TRUE, val |-> 0, next |-> i + 1]
    ELSE NoField

\* one or more blanks
Blanks(s, i) ==
    LET j == SpaceEnd(s, i)
    IN  IF j > i THEN [ok |-> TRUE, val |-> 0, next |-> j] ELSE NoField

\* %p, matched without regard to case: val 0 for AM, 1 for PM
AmPm(s, i) ==
    IF i + 1 <= Len(s) /\ s[i] \in {"A", "a", "P", "p"} /\ s[i + 1] \in {"M", "m"}
    THEN [ok |-> TRUE, val |-> IF s[i] \in {"P", "p"} THEN 1 ELSE 0, next |-> i + 2]
    ELSE NoField

IsLeap(y) == (y % 4 = 0 /\ y % 100 # 0) \/ y % 400 = 0

DaysInMonth(y, m) ==
    IF m = 2 THEN (IF IsLeap(y) THEN 29 ELSE 28)
    ELSE IF m \in {4, 6, 9, 11} THEN 30 ELSE 31

\* Hour24 without the rule that 12 AM is hour 0
Hour24_NoMidnight(hh, pm) == IF pm = 1 /\ hh # 12 THEN hh + 12 ELSE hh

\* %I with %p to the hour of the day
Hour24(hh, pm) ==
    IF pm = 0 THEN (IF hh = 12 THEN 0 ELSE hh)
    ELSE (IF hh # 12 THEN hh + 12 ELSE hh)

\* the format "%m/%d/%Y %I:%M:%S %p", one directive or literal per element
Format == <<"m", "/", "d", "/", "Y", " ", "I", ":", "M", ":", "S", " ", "p">>

\* the regular expression of one element of the format, matched at i
Directive(c, s, i) ==
    CASE c = "m" -> Field(s, i, 1, 2, 1, 12)
      [] c = "d" -> DayField(s, i)
      [] c = "Y" -> Field(s, i, 4, 4, 0, 9999)
      [] c = "I" -> Field(s, i, 1, 2, 1, 12)
      [] c = "M" -> Field(s, i, 1, 2, 0, 59)
      [] c = "S" -> Field(s, i, 1, 2, 0, 61)
      [] c = "p" -> AmPm(s, i)
      [] c = " " -> Blanks(s, i)
      [] OTHER   -> Lit(s, i, c)

NoMatch == [ok |-> FALSE, m |-> 0, d |-> 0, Y |-> 0, I |-> 0, M |-> 0,
            S |-> 0, p |-> 0]

\* the format matched against s from element k and position i on; the whole
\* of s has to be used up ("unconverted data remains" otherwise)
RECURSIVE Match(_, _, _, _)
Match(s, i, k, found) ==
    IF k > Len(Format)
    THEN (IF i = Len(s) + 1 THEN [found EXCEPT !.ok = TRUE] ELSE NoMatch)
    ELSE LET r == Directive(Format[k], s, i)
         IN  IF r.ok
             THEN Match(s, r.next, k + 1,
                        IF Format[k] \in {"m", "d", "Y", "I", "M", "S", "p"}
                        THEN [found EXCEPT ![Format[k]] = r.val]
                        ELSE found)
             ELSE NoMatch

NoDate == [ok |-> FALSE, year |-> 0, month |-> 0, day |-> 0,
           hour |-> 0, minute |-> 0, second |-> 0]

\* the datetime of the values found; ok = FALSE where datetime raises
\* ValueError (year 0, a day the month does not have, second 60 or 61)
MakeDate(f) ==
    IF f.ok /\ f.Y >= 1 /\ f.d <= DaysInMonth(f.Y, f.m) /\ f.S <= 59
    THEN [ok |-> TRUE, year |-> f.Y, month |-> f.m, day |-> f.d,
          hour |-> Hour24(f.I, f.p), minute |-> f.M, second |-> f.S]
    ELSE NoDate

\* datetime.strptime(s, "%m/%d/%Y %I:%M:%S %p"): ok = FALSE is ValueError
Strptime(s) == MakeDate(Match(s, 1, 1, NoMatch))

\* str(n) for n >= 0
RECURSIVE Digits(_)
Digits(n) ==
    IF n < 10 THEN <<DigitChr[n + 1]>>
    ELSE Digits(n \div 10) \o <<DigitChr[(n % 10) + 1]>>

\* %Y of strftime: the C library's, which on Linux does not pad a year
\* below 1000 to four digits
YearText(y) == IF y >= 1000 THEN Pad4(y) ELSE Digits(y)

\* dt.strftime("%Y-%m-%d")
StrftimeDate(dt) == YearText(dt.year) \o <<"-">> \o Pad2(dt.month) \o <<"-">> \o Pad2(dt.day)

\* dt.strftime("%H:%M:%S")
StrftimeTime(dt) == Pad2(dt.hour) \o <<":">> \o Pad2(dt.minute) \o <<":">> \o Pad2(dt.second)

NoSplit == [ok |-> FALSE, date |-> <<>>, time |-> <<>>]

\* transform_date(date_str): ok = FALSE when strptime raises
transform_date(s) ==
    LET dt == Strptime(s)
    IN  IF dt.ok
        THEN [ok |-> TRUE, date |-> StrftimeDate(dt), time |-> StrftimeTime(dt)]
        ELSE NoSplit

(***************************************************************************)
(* Timestamp values the date specification draws from                     *)
(***************************************************************************)
\* "MM/DD/YYYY hh:mm:ss AM|PM", every field zero-padded
Stamp(mo, d, y, hh, mi, ss, pm) ==
    Pad2(mo) \o <<"/">> \o Pad2(d) \o <<"/">> \o Pad4(y) \o <<" ">> \o
    Pad2(hh) \o <<":">> \o Pad2(mi) \o <<":">> \o Pad2(ss) \o <<" ">> \o
    (IF pm = 1 THEN <<"P", "M">> ELSE <<"A", "M">>)

\* an ISO value "YYYY-MM-DD HH:MM:SS", which is not in the input format
IsoStamp(mo, d, y, hh, mi, ss) ==
    Pad4(y) \o <<"-">> \o Pad2(mo) \o <<"-">> \o Pad2(d) \o <<" ">> \o
    Pad2(hh) \o <<":">> \o Pad2(mi) \o <<":">> \o Pad2(ss)

Months  == {1, 2, 12, 13}
Days    == {1, 28, 29, 31}
Years   == {0, 999, 1000, 2024, 2025, 9999}
Hours   == 0 .. 13
Minutes == {0, 7, 59}
Seconds == {0, 59, 60}

StampParts == Months \X Days \X Years \X Hours \X Minutes \X Seconds \X {0, 1}

ValidParts(p) ==
    /\ p[1] \in 1 .. 12
    /\ p[2] \in 1 .. DaysInMonth(p[3], p[1])
    /\ p[4] \in 1 .. 12
    /\ p[5] \in 0 .. 59
    /\ p[6] \in 0 .. 59

StampOf(p) == Stamp(p[1], p[2], p[3], p[4], p[5], p[6], p[7])

\* values that are not zero-padded Timestamp Values
OddStamps ==
    { IsoStamp(1, 1, 2025, 3, 57, 0),
      <<"1", "/", "1", "/", "2", "0", "2", "5", " ", "3", ":", "5", ":", "7", " ", "p", "m">>,
      Stamp(1, 1, 2025, 3, 57, 0, 0) \o <<" ">>,
      <<>> }

(***************************************************************************)
(* Headers, records and files                                              *)
(***************************************************************************)
Columns == {"ID", "Date", "Block", "Updated On"}

Range(f) == {f[i] : i \in DOMAIN f}

\* sequences over S of length n without repetition
RECURSIVE Arrangements(_, _)
Arrangements(S, n) ==
    IF n = 0 THEN {<<>>}
    ELSE UNION {{<<x>> \o t : t \in Arrangements(S \ {x}, n - 1)} : x \in S}

\* headers of unique column names, the empty one being that of an empty file
Headers == UNION {Arrangements(Columns, n) : n \in 0 .. MaxCols}

\* Date values of the data lines
DateSamples ==
    { Stamp(1, 1, 2025, 3, 57, 0, 0),
      Stamp(12, 31, 2024, 12, 0, 59, 1),
      IsoStamp(1, 1, 2025, 3, 57, 0) }

\* the field of column c in data line i: the Date that ds gives the line,
\* or a value that no other field of the file has
Cell(c, i, ds) == IF c = "Date" THEN ds[i] ELSE <<c, DigitChr[i + 1]>>

Line(h, i, ds) == [j \in 1 .. Len(h) |-> Cell(h[j], i, ds)]

File(h, ds) == [exists |-> TRUE, hdr |-> h, rows |-> [i \in 1 .. Len(ds) |-> Line(h, i, ds)]]

\* sequences over S of length n
RECURSIVE Tuples(_, _)
Tuples(S, n) ==
    IF n = 0 THEN {<<>>}
    ELSE {<<x>> \o t : x \in S, t \in Tuples(S, n - 1)}

\* the Date values of n data lines; one choice is enough without a Date column
DateChoices(h, n) ==
    IF "Date" \in Range(h) THEN Tuples(DateSamples, n)
    ELSE {[i \in 1 .. n |-> <<>>]}

\* a file of zero bytes
EmptyFile == [exists |-> TRUE, hdr |-> <<>>, rows |-> <<>>]

InputFiles ==
    {EmptyFile} \cup
    UNION {UNION {{File(h, ds) : ds \in DateChoices(h, n)} : n \in 0 .. MaxRows}
           : h \in Headers \ {<<>>}}

\* Path.exists()
Exists(f) == f.exists

\* list.index(x): 0 stands for ValueError
RECURSIVE IndexOf(_, _)
IndexOf(seq, x) ==
    IF seq = <<>> THEN 0
    ELSE IF Head(seq) = x THEN 1
    ELSE LET r == IndexOf(Tail(seq), x) IN IF r = 0 THEN 0 ELSE r + 1

\* csv.DictReader: the dict of a data line
DictRow(h, line) == [c \in Range(h) |-> line[IndexOf(h, c)]]

\* csv.DictWriter: the data line of a dict
WriteRow(h, d) == [j \in 1 .. Len(h) |-> d[h[j]]]

(***************************************************************************)
(* transform_csv                                                           *)
(***************************************************************************)
\* old_fieldnames.index("Date") finds the column
HasDate_Unchecked(fn) == TRUE

HasDate(fn) == IndexOf(fn, "Date") # 0

\* NewFieldnames that puts the two new columns at the end
RECURSIVE NewFieldnames_AtEnd(_)
NewFieldnames_AtEnd(old) ==
    IF old = <<>> THEN <<"Date_of_Crime", "Time_of_Crime">>
    ELSE (IF Head(old) \in {"Date", "Updated On"} THEN <<>> ELSE <<Head(old)>>)
         \o NewFieldnames_AtEnd(Tail(old))

\* NewFieldnames that adds the two new columns and keeps Date
RECURSIVE NewFieldnames_KeepDate(_)
NewFieldnames_KeepDate(old) ==
    IF old = <<>> THEN <<>>
    ELSE (IF Head(old) = "Date" THEN <<"Date", "Date_of_Crime", "Time_of_Crime">>
          ELSE IF Head(old) = "Updated On" THEN <<>>
          ELSE <<Head(old)>>)
         \o NewFieldnames_KeepDate(Tail(old))

\* the left-to-right scan that builds new_fieldnames
RECURSIVE NewFieldnames(_)
NewFieldnames(old) ==
    IF old = <<>> THEN <<>>
    ELSE (IF Head(old) = "Date" THEN <<"Date_of_Crime", "Time_of_Crime">>
          ELSE IF Head(old) = "Updated On" THEN <<>>
          ELSE <<Head(old)>>)
         \o NewFieldnames(Tail(old))

\* new_row of one input row
NewRow(nf, row, split) ==
    [f \in Range(nf) |->
        IF f = "Date_of_Crime" THEN split.date
        ELSE IF f = "Time_of_Crime" THEN split.time
        ELSE row[f]]

\* what writeheader and writerows put into the output file
Written(nf, rs) ==
    [exists |-> TRUE, hdr |-> nf,
     rows |-> [i \in 1 .. Len(rs) |-> WriteRow(nf, rs[i])]]

\* the output file after a write that failed: nothing, or the header and
\* the first k data lines
PartlyWritten(nf, rs) ==
    {EmptyFile} \cup
    {[exists |-> TRUE, hdr |-> nf,
      rows |-> [i \in 1 .. k |-> WriteRow(nf, rs[i])]] : k \in 0 .. Len(rs)}

(***************************************************************************)
(* The run: main                                                           *)
(***************************************************************************)
NewHist(prev) ==
    [csv0 |-> csv, backup0 |-> backup, temp0 |-> temp, prev |-> prev,
     failed |-> "none", opened |-> FALSE, read |-> 0]

NotDone == [done |-> FALSE, ok |-> FALSE, date |-> <<>>, time |-> <<>>]

Init ==
    /\ csv \in {NoFile} \cup InputFiles
    /\ backup \in {NoFile, EmptyFile, csv}
    /\ temp \in {NoFile, EmptyFile}
    /\ pc = "start"
    /\ old_fieldnames = <<>>
    /\ new_fieldnames = <<>>
    /\ rows = <<>>
    /\ row_count = 0
    /\ result = "none"
    /\ run = 1
    /\ hist = NewHist("none")
    /\ date_str = <<>>
    /\ date_out = NotDone

locals == <<old_fieldnames, new_fieldnames, rows, row_count>>
files == <<csv, backup, temp>>
dates == <<date_str, date_out>>

\* the except clause is entered
Raise(what) ==
    /\ pc' = "handler"
    /\ hist' = [hist EXCEPT !.failed = what]

\* if not csv_path.exists(): return 1
CheckSource ==
    /\ pc = "start"
    /\ IF Exists(csv)
       THEN pc' = "backup" /\ result' = result
       ELSE pc' = "done" /\ result' = "notfound"
    /\ UNCHANGED <<files, locals, run, hist, dates>>

\* CreateBackup that copies whether or not the backup exists
CreateBackup_Always ==
    /\ pc = "backup"
    /\ backup' = csv
    /\ pc' = "transform"
    /\ UNCHANGED <<csv, temp, locals, result, run, hist, dates>>

\* CreateBackup that goes on after a failed copy
CreateBackup_Swallow ==
    /\ pc = "backup"
    /\ \/ /\ Exists(backup)
          /\ UNCHANGED <<backup, hist>>
       \/ /\ ~Exists(backup)
          /\ backup' = csv
          /\ UNCHANGED hist
       \/ /\ ~Exists(backup)
          /\ backup' \in {NoFile, EmptyFile}
          /\ hist' = [hist EXCEPT !.failed = "copy"]
    /\ pc' = "transform"
    /\ UNCHANGED <<csv, temp, locals, result, run, dates>>

\* if not backup_path.exists(): shutil.copy(csv_path, backup_path).  The
\* copy stands outside the try block: when it fails the exception leaves
\* main, and the backup path holds nothing or a truncated copy.
CreateBackup ==
    /\ pc = "backup"
    /\ \/ /\ Exists(backup)
          /\ pc' = "transform"
          /\ UNCHANGED <<backup, result, hist>>
       \/ /\ ~Exists(backup)
          /\ backup' = csv
          /\ pc' = "transform"
          /\ UNCHANGED <<result, hist>>
       \/ /\ ~Exists(backup)
          /\ backup' \in {NoFile, EmptyFile}
          /\ pc' = "done"
          /\ result' = "uncaught"
          /\ hist' = [hist EXCEPT !.failed = "copy"]
    /\ UNCHANGED <<csv, temp, locals, run, dates>>

\* transform_csv up to the row loop: open the input, read the header,
\* find Date, build new_fieldnames
ReadHeader ==
    /\ pc = "transform"
    /\ \/ /\ Raise("open_in")
          /\ UNCHANGED locals
       \/ /\ csv.hdr = <<>>
          /\ Raise("header")
          /\ UNCHANGED locals
       \/ /\ csv.hdr # <<>>
          /\ old_fieldnames' = csv.hdr
          /\ IF HasDate(csv.hdr)
             THEN /\ new_fieldnames' = NewFieldnames(csv.hdr)
                  /\ pc' = "rows"
                  /\ hist' = hist
             ELSE /\ new_fieldnames' = new_fieldnames
                  /\ Raise("nodate")
          /\ UNCHANGED <<rows, row_count>>
    /\ UNCHANGED <<files, result, run, dates>>

\* ProcessRow that counts a row without keeping it
ProcessRow_Drop ==
    /\ pc = "rows"
    /\ row_count < Len(csv.rows)
    /\ row_count' = row_count + 1
    /\ hist' = [hist EXCEPT !.read = @ + 1]
    /\ UNCHANGED <<files, pc, old_fieldnames, new_fieldnames, rows, result,
                   run, dates>>

\* one pass of the row loop
ProcessRow ==
    /\ pc = "rows"
    /\ row_count < Len(csv.rows)
    /\ LET row   == DictRow(old_fieldnames, csv.rows[row_count + 1])
           split == IF "Date" \in DOMAIN row THEN transform_date(row["Date"])
                    ELSE NoSplit
       IN  IF split.ok
           THEN /\ rows' = Append(rows, NewRow(new_fieldnames, row, split))
                /\ row_count' = row_count + 1
                /\ pc' = pc
                /\ hist' = [hist EXCEPT !.read = @ + 1]
           ELSE /\ pc' = "handler"
                /\ hist' = [hist EXCEPT !.read = @ + 1, !.failed = "date"]
                /\ UNCHANGED <<rows, row_count>>
    /\ UNCHANGED <<files, old_fieldnames, new_fieldnames, result, run, dates>>

\* the reader is exhausted; open(output_path, 'w')
OpenOutput ==
    /\ pc = "rows"
    /\ row_count = Len(csv.rows)
    /\ \/ /\ temp' = EmptyFile
          /\ pc' = "write"
          /\ hist' = [hist EXCEPT !.opened = TRUE]
       \/ /\ temp' = temp
          /\ Raise("open_out")
    /\ UNCHANGED <<csv, backup, locals, result, run, dates>>

\* WriteOutput that writes to the input path
WriteOutput_InPlace ==
    /\ pc = "write"
    /\ \/ /\ csv' = Written(new_fieldnames, rows)
          /\ pc' = "replace"
          /\ hist' = hist
       \/ /\ csv' \in PartlyWritten(new_fieldnames, rows)
          /\ Raise("write")
    /\ UNCHANGED <<temp, backup, locals, result, run, dates>>

\* writeheader, writerows, close; then transform_csv returns
WriteOutput ==
    /\ pc = "write"
    /\ \/ /\ temp' = Written(new_fieldnames, rows)
          /\ pc' = "replace"
          /\ hist' = hist
       \/ /\ temp' \in PartlyWritten(new_fieldnames, rows)
          /\ Raise("write")
    /\ UNCHANGED <<csv, backup, locals, result, run, dates>>

\* temp_path.replace(csv_path); return 0
Replace ==
    /\ pc = "replace"
    /\ \/ /\ csv' = temp
          /\ temp' = NoFile
          /\ pc' = "done"
          /\ result' = "ok"
          /\ hist' = hist
       \/ /\ Raise("replace")
          /\ UNCHANGED <<csv, temp, result>>
    /\ UNCHANGED <<backup, locals, run, dates>>

\* Handler that leaves the temp file
Handler_NoUnlink ==
    /\ pc = "handler"
    /\ pc' = "done"
    /\ result' = "handled"
    /\ UNCHANGED <<files, locals, run, hist, dates>>

\* except Exception: print the error, unlink the temp file if it exists,
\* return 1
Handler ==
    /\ pc = "handler"
    /\ temp' = IF Exists(temp) THEN NoFile ELSE temp
    /\ pc' = "done"
    /\ result' = "handled"
    /\ UNCHANGED <<csv, backup, locals, run, hist, dates>>

\* the script is started again on the files the last run left
NextRun ==
    /\ pc = "done"
    /\ run < MaxRuns
    /\ run' = run + 1
    /\ pc' = "start"
    /\ old_fieldnames' = <<>>
    /\ new_fieldnames' = <<>>
    /\ rows' = <<>>
    /\ row_count' = 0
    /\ result' = "none"
    /\ hist' = NewHist(result)
    /\ UNCHANGED <<files, dates>>

Next ==
    \/ CheckSource
    \/ CreateBackup
    \/ ReadHeader
    \/ ProcessRow
    \/ OpenOutput
    \/ WriteOutput
    \/ Replace
    \/ Handler
    \/ NextRun

Spec == Init /\ [][Next]_vars

\* exit(main()): the interpreter turns an uncaught exception into status 1
ExitCode == IF result = "ok" THEN 0 ELSE 1

(***************************************************************************)
(* transform_date on its own                                               *)
(***************************************************************************)
InitDate ==
    /\ csv = NoFile
    /\ backup = NoFile
    /\ temp = NoFile
    /\ pc = "date"
    /\ old_fieldnames = <<>>
    /\ new_fieldnames = <<>>
    /\ rows = <<>>
    /\ row_count = 0
    /\ result = "none"
    /\ run = 1
    /\ \/ \E p \in StampParts : date_str = StampOf(p) /\ hist = [parts |-> p]
       \/ date_str \in OddStamps /\ hist = [parts |-> <<>>]
    /\ date_out = NotDone

CallTransformDate ==
    /\ pc = "date"
    /\ ~date_out.done
    /\ LET r == transform_date(date_str)
       IN  date_out' = [done |-> TRUE, ok |-> r.ok, date |-> r.date, time |-> r.time]
    /\ UNCHANGED <<files, pc, locals, result, run, hist, date_str>>

NextDate == CallTransformDate

SpecDate == InitDate /\ [][NextDate]_vars

(***************************************************************************)
(* Properties                                                              *)
(***************************************************************************)
Finished == pc = "done"

\* the temp file holds the whole transformed data set
TempComplete ==
    /\ temp = Written(new_fieldnames, rows)
    /\ row_count = Len(csv.rows)
    /\ Len(rows) = row_count

RECURSIVE Without(_, _)
Without(seq, S) ==
    IF seq = <<>> THEN <<>>
    ELSE (IF Head(seq) \in S THEN <<>> ELSE <<Head(seq)>>) \o Without(Tail(seq), S)

HeaderBuilt == new_fieldnames # <<>>

\* length, and the other columns in their input order
HeaderShape ==
    /\ Len(new_fieldnames) = Len(old_fieldnames) + 1
           - (IF "Updated On" \in Range(old_fieldnames) THEN 1 ELSE 0)
    /\ Without(new_fieldnames, {"Date_of_Crime", "Time_of_Crime"})
           = Without(old_fieldnames, {"Date", "Updated On"})

\* C2 as stated: the output header has the stated length, keeps the other
\* columns in order and has Date_of_Crime at the index Date had in the
\* input header, followed by Time_of_Crime.
C2_Original ==
    HeaderBuilt =>
        /\ HeaderShape
        /\ IndexOf(new_fieldnames, "Date_of_Crime") = IndexOf(old_fieldnames, "Date")
        /\ IndexOf(new_fieldnames, "Time_of_Crime") = IndexOf(old_fieldnames, "Date") + 1

\* 1 when Updated On stands before Date in the input header
UpdatedOnBefore ==
    IF /\ IndexOf(old_fieldnames, "Updated On") # 0
       /\ IndexOf(old_fieldnames, "Updated On") < IndexOf(old_fieldnames, "Date")
    THEN 1 ELSE 0

\* C2 as amended: the output header has the stated length and keeps the
\* other columns in order; Date_of_Crime stands at the index Date had in
\* the input header, less one when Updated On stood before Date, and is
\* followed by Time_of_Crime.
C2_HeaderProjection ==
    HeaderBuilt =>
        /\ HeaderShape
        /\ IndexOf(new_fieldnames, "Date_of_Crime")
               = IndexOf(old_fieldnames, "Date") - UpdatedOnBefore
        /\ IndexOf(new_fieldnames, "Time_of_Crime")
               = IndexOf(new_fieldnames, "Date_of_Crime") + 1

C2_Witness ==
    /\ HeaderBuilt
    /\ UpdatedOnBefore = 1
    /\ Len(old_fieldnames) >= 3
    /\ IndexOf(new_fieldnames, "Date_of_Crime") = IndexOf(old_fieldnames, "Date") - 1

TransformFailures == {"open_in", "header", "nodate", "date", "open_out", "write"}

\* C3: when the transform step fails, the run ends with exit code 1, no
\* temp file, the original as it was before the run, and the backup present.
C3_TransformFailureIsClean ==
    (Finished /\ hist.failed \in TransformFailures) =>
        /\ result = "handled"
        /\ ExitCode = 1
        /\ ~Exists(temp)
        /\ csv = hist.csv0
        /\ Exists(backup)

C3_Witness ==
    /\ Finished
    /\ hist.failed = "date"
    /\ Exists(hist.temp0)
    /\ ~Exists(temp)

\* C4: a run that starts with the backup present leaves it as it was, at
\* every step and whatever the outcome.
C4_BackupNotOverwritten ==
    Exists(hist.backup0) => backup = hist.backup0

C4_Witness ==
    /\ Finished
    /\ run = 2
    /\ result = "ok"
    /\ Exists(hist.backup0)
    /\ backup # hist.csv0

\* C5: every error of a run ends in the "not found" return or in the
\* except clause of main; none leaves main as an exception.
C5_AllErrorsHandled ==
    (Finished /\ result # "ok") => result \in {"notfound", "handled"}

\* the value of column c in data line i of file f
Value(f, i, c) == f.rows[i][IndexOf(f.hdr, c)]

\* C6: when transform_csv returns, its row count is the number of input
\* data lines, the output has that many lines in the input's order, every
\* column other than the two new ones has the value of the same column of
\* the same input line, and the two new ones are the split of its Date.
C6_RowsPreserved ==
    pc = "replace" =>
        /\ row_count = Len(csv.rows)
        /\ Len(temp.rows) = Len(csv.rows)
        /\ \A i \in 1 .. Len(temp.rows) :
               /\ \A c \in Range(temp.hdr) \ {"Date_of_Crime", "Time_of_Crime"} :
                      Value(temp, i, c) = Value(csv, i, c)
               /\ Value(temp, i, "Date_of_Crime") = transform_date(Value(csv, i, "Date")).date
               /\ Value(temp, i, "Time_of_Crime") = transform_date(Value(csv, i, "Date")).time

C6_Witness ==
    /\ pc = "replace"
    /\ row_count >= 2
    /\ "ID" \in Range(temp.hdr)
    /\ "Updated On" \in Range(csv.hdr)
    /\ Value(csv, 1, "Date") # Value(csv, 2, "Date")

\* the 12-hour formatting of a Date Value and a Time Value
Inverse12(date, time) ==
    LET H  == NumVal(time, 1, 3)
        hh == IF H % 12 = 0 THEN 12 ELSE H % 12
    IN  SubSeq(date, 6, 7) \o <<"/">> \o SubSeq(date, 9, 10) \o <<"/">> \o
        SubSeq(date, 1, 4) \o <<" ">> \o Pad2(hh) \o SubSeq(time, 3, 8) \o
        <<" ">> \o (IF H >= 12 THEN <<"P", "M">> ELSE <<"A", "M">>)

\* transform_date split the value of parts p as the claim says
SplitAsStated(p) ==
    /\ date_out.ok
    /\ date_out.date = Pad4(p[3]) \o <<"-">> \o Pad2(p[1]) \o <<"-">> \o Pad2(p[2])
    /\ date_out.time = Pad2((p[4] % 12) + 12 * p[7]) \o <<":">> \o Pad2(p[5])
                           \o <<":">> \o Pad2(p[6])
    /\ Inverse12(date_out.date, date_out.time) = date_str

\* C7 as stated: every zero-padded value with a valid month, day, hour,
\* minute and second is split as the claim says, whatever its year.
C7_Original ==
    (date_out.done /\ hist.parts # <<>> /\ ValidParts(hist.parts)) =>
        SplitAsStated(hist.parts)

\* C7 as amended: the same for the years 1000 to 9999.
C7_DateSplit ==
    (date_out.done /\ hist.parts # <<>> /\ ValidParts(hist.parts)
        /\ hist.parts[3] >= 1000) =>
        SplitAsStated(hist.parts)

C7_Witness ==
    /\ date_out.done
    /\ date_out.ok
    /\ hist.parts # <<>>
    /\ hist.parts[4] = 12
    /\ hist.parts[7] = 0
    /\ SubSeq(date_out.time, 1, 2) = <<"0", "0">>

\* the run started on a file whose header has columns but no Date
NoDateInput ==
    /\ Exists(hist.csv0)
    /\ hist.csv0.hdr # <<>>
    /\ "Date" \notin Range(hist.csv0.hdr)

\* C8: on a header without Date no data line is read, the temp file is
\* never opened for writing, the original stays as it was, and the run ends
\* with exit code 1.
C8_NoDateRejectedEarly ==
    NoDateInput =>
        /\ hist.read = 0
        /\ rows = <<>>
        /\ ~hist.opened
        /\ csv = hist.csv0
        /\ Finished => ExitCode = 1

C8_Witness ==
    /\ Finished
    /\ hist.failed = "nodate"
    /\ Len(csv.rows) > 0
    /\ result = "handled"

\* C9: the original changes only by the replace, taken when the backup
\* exists and the temp file is complete, the backup being the original as
\* the run found it if the run had to create it; after a failed copy the
\* run is over with nothing read and nothing written.
C9_BackupBeforeReplace ==
    /\ [][csv' # csv =>
             /\ pc = "replace"
             /\ csv = hist.csv0
             /\ Exists(backup)
             /\ TempComplete
             /\ csv' = temp
             /\ (~Exists(hist.backup0) => backup = hist.csv0)]_vars
    /\ [](hist.failed = "copy" =>
             /\ Finished
             /\ csv = hist.csv0
             /\ old_fieldnames = <<>>
             /\ ~hist.opened)

C9_Witness ==
    /\ Finished
    /\ result = "ok"
    /\ ~Exists(hist.backup0)
    /\ backup = hist.csv0
    /\ csv # hist.csv0

\* C10: in a run that follows a successful run the original and the backup
\* stay as that run left them and no row is transformed; it ends in the
\* except clause with exit code 1 and no temp file.
C10_SecondRunHarmless ==
    hist.prev = "ok" =>
        /\ csv = hist.csv0
        /\ backup = hist.backup0
        /\ rows = <<>>
        /\ Finished => (result = "handled" /\ ExitCode = 1 /\ ~Exists(temp))

C10_Witness ==
    /\ Finished
    /\ hist.prev = "ok"
    /\ Len(csv.rows) > 0
    /\ result = "handled"

====
